---- MODULE Spec2Model ----
(***************************************************************************)
(* Chatify: the Conversation Composer (app/page.tsx) and the Relay         *)
(* Endpoint (app/api/chat/route.ts).                                       *)
(*                                                                         *)
(* Text is modelled as a sequence of string tokens: a fixed literal of the *)
(* source is one token, variable text (message content, an upstream error  *)
(* body) is one token per character, so that trim() and slice() act on     *)
(* characters.                                                             *)
(***************************************************************************)
EXTENDS Integers, Sequences, FiniteSets, TLC

VARIABLES
    \* ---- Relay Endpoint: one request, from arrival to response ----
    request,            \* the inbound request (headers, multipart body)
    apiKey,             \* process.env.OPENAI_API_KEY is set
    rpc,                \* position of the POST handler
    relayMessages,      \* `messages` after JSON.parse
    attachments,        \* AttachmentDetail[]
    latestUserMessage,  \* content of the latest user-role message
    attachmentSummary,  \* buildAttachmentSummary(attachments)
    upstreamCalls,      \* bodies handed to fetch(api.openai.com), in order
    upstreamResponse,   \* what the upstream call settled with
    result,             \* the NextResponse of the handler
    \* ---- Conversation Composer: the Home component ----
    messages,           \* useState<ChatMessage[]>
    input,              \* useState("")
    pendingAttachments, \* useState<AttachmentDraft[]>
    isThinking,         \* useState(false)
    pendingRef,         \* useRef<AttachmentDraft[]>
    sends,              \* handleSend invocations that have not returned yet
    previews,           \* object URLs created and not yet revoked
    nextId,             \* next fresh id / object URL / file handle
    mounted,            \* the component has not been torn down
    started,            \* handleSend invocations that passed the guard
    requests,           \* requests to /api/chat in flight, oldest first
    sentCount,          \* requests handed to fetch("/api/chat") so far
    budget,             \* the drafts and sends this run may create
    \* ---- Conversation Composer: voice playback ----
    autoSpeak,          \* useState(true)
    speechSupported,    \* useState({ input, output }); only `output` is read here
    speakQueue,         \* useState<string | null>: <<>> is null, <<text>> a text
    synth               \* utterances window.speechSynthesis holds, the first one active

rvars == <<request, apiKey, rpc, relayMessages, attachments, latestUserMessage,
           attachmentSummary, upstreamCalls, upstreamResponse, result>>
voice == <<autoSpeak, speechSupported, speakQueue, synth>>
cvars == <<messages, input, pendingAttachments, isThinking, pendingRef, sends,
           previews, nextId, mounted, started, requests, sentCount, budget, voice>>
vars == <<rvars, cvars>>

\* ------------------------------------------------------------------ bounds
MaxMsgs == 3        \* longest transcript a relay request carries
MaxFiles == 2       \* most file parts a relay request carries

\* ------------------------------------------------------------ text helpers
Min(a, b) == IF a < b THEN a ELSE b
Max(a, b) == IF a > b THEN a ELSE b

Whitespace == {" ", "\n", "\t"}

RECURSIVE TrimStart(_)
TrimStart(s) ==
    IF s # <<>> /\ Head(s) \in Whitespace THEN TrimStart(Tail(s)) ELSE s

RECURSIVE TrimEnd(_)
TrimEnd(s) ==
    IF s # <<>> /\ s[Len(s)] \in Whitespace
    THEN TrimEnd(SubSeq(s, 1, Len(s) - 1)) ELSE s

\* String.prototype.trim
Trim(s) == TrimEnd(TrimStart(s))

\* String.prototype.slice(0, n) / Array.prototype.slice(0, n), n >= 0
Slice(s, n) == SubSeq(s, 1, Min(Len(s), n))

RECURSIVE Join(_, _)
\* Array.prototype.join over texts
Join(parts, sep) ==
    IF parts = <<>> THEN <<>>
    ELSE IF Len(parts) = 1 THEN parts[1]
    ELSE parts[1] \o <<sep>> \o Join(Tail(parts), sep)

\* [...xs].reverse()
Reverse(xs) == [i \in 1..Len(xs) |-> xs[Len(xs) + 1 - i]]

\* ===================================================================
\* Relay Endpoint (route.ts)
\* ===================================================================

SYSTEM_PROMPT == <<"You are Chatify, an upbeat and deeply practical AI guide. ...">>

ExcerptLen == 200       \* responder.slice(0, 200)
PreviewLen == 800       \* buffer.toString("base64").slice(0, 800)

fallbackAssistant(latestUser, summary) ==
    <<"I couldn't reach my reasoning engine just now, but here's a quick take based on what you shared:\n\n">>
    \o latestUser \o <<"\n\n">> \o summary
    \o <<"\n\nLet's retry in a moment if you need a deeper dive.">>

\* Math.max(1, Math.round(item.bytes / 1024))
KiloBytes(bytes) == Max(1, (bytes + 512) \div 1024)

SummaryBullet(item) ==
    <<"(bullet) ", item.name, " (", item.type, ", ~", ToString(KiloBytes(item.bytes)), "KB)">>
    \o item.preview

buildAttachmentSummary(items) ==
    IF Len(items) = 0 THEN <<"No attachments were included.">>
    ELSE <<"Attachments provided:\n">>
         \o Join([i \in 1..Len(items) |-> SummaryBullet(items[i])], "\n")

\* length of the base64 text of a buffer of `bytes` bytes
Base64Len(bytes) == 4 * ((bytes + 2) \div 3)

IsImage(type) == type \in {"image/png"}     \* entry.type.startsWith("image/")

\* the loop body that turns one File entry into an AttachmentDetail
AttachmentDetailOf(entry) ==
    [name |-> entry.name,
     type |-> IF entry.type = "" THEN "application/octet-stream" ELSE entry.type,
     bytes |-> entry.bytes,
     preview |->
        IF IsImage(entry.type)
        THEN <<"\n   (bullet) Visual preview (base64, truncated): ",
               ToString([base64of |-> entry.name,
                         chars |-> Min(Base64Len(entry.bytes), PreviewLen)]),
               "...">>
        ELSE <<>>]

ExtractAttachments(files) == [i \in 1..Len(files) |-> AttachmentDetailOf(files[i])]

RECURSIVE FindUser(_)
\* Array.prototype.find((message) => message.role === "user"), <<>> for undefined
FindUser(ms) ==
    IF ms = <<>> THEN <<>>
    ELSE IF Head(ms).role = "user" THEN <<Head(ms)>>
    ELSE FindUser(Tail(ms))

\* a plausible slip: the reverse() is forgotten, the first user message is found
FirstUserContent(ms) ==
    LET found == FindUser(ms)
    IN  IF found = <<>> THEN <<>> ELSE found[1].content

\* [...messages].reverse().find(...)?.content ?? ""
LatestUserContent(ms) ==
    LET found == FindUser(Reverse(ms))
    IN  IF found = <<>> THEN <<>> ELSE found[1].content

\* the callback of messages.map at the enrichment step
EnrichOne(ms, index, atts, summary) ==
    IF ms[index].role = "user" /\ index = Len(ms) /\ Len(atts) # 0
    THEN [role |-> ms[index].role,
          content |-> ms[index].content \o <<"\n\n">> \o summary]
    ELSE ms[index]

enrichedMessages(ms, atts, summary) ==
    [index \in 1..Len(ms) |-> EnrichOne(ms, index, atts, summary)]

\* the `messages` array of the body handed to the upstream fetch
UpstreamBody(enriched) ==
    <<[role |-> "system", content |-> SYSTEM_PROMPT]>>
    \o [i \in 1..Len(enriched) |->
            [role |-> enriched[i].role, content |-> enriched[i].content]]

\* ---- the values a request and an upstream response can carry ----

Roles == {"user", "assistant"}
Contents == {<<"A">>, <<"B">>}
RequestMessages == [role : Roles, content : Contents]
Transcripts == UNION {[1..n -> RequestMessages] : n \in 0..MaxMsgs}

\* what the text of the `messages` field denotes
NoJson == [t |-> "none", items |-> <<>>]
JsonArrays == {[t |-> "array", items |-> ms] : ms \in Transcripts}
\* text that is no JSON, JSON that is no array, and an array of non-messages
JsonInvalid == [t |-> "invalid", items |-> <<>>]
JsonOthers == {[t |-> k, items |-> <<>>] : k \in {"null", "object", "number", "string"}}
JsonBadArray ==
    [t |-> "array", items |-> <<[role |-> "undefined", content |-> <<"undefined">>]>>]

MessagesFields ==
    {[kind |-> "absent", json |-> NoJson], [kind |-> "file", json |-> NoJson]}
    \cup {[kind |-> "text", json |-> j] :
            j \in {JsonInvalid, JsonBadArray} \cup JsonOthers \cup JsonArrays}

FileParts ==
    {[name |-> "a.png", type |-> "image/png", bytes |-> 2048],
     [name |-> "b.txt", type |-> "text/plain", bytes |-> 100],
     [name |-> "c.bin", type |-> "", bytes |-> 0]}
FileSeqs == UNION {[1..n -> FileParts] : n \in 0..MaxFiles}

ContentTypes == {"multipart/form-data; boundary=x", "application/json", "null"}

\* contentType.includes("multipart/form-data"), after `?? ""`
IsMultipart(contentType) == contentType = "multipart/form-data; boundary=x"

Requests ==
    [contentType : ContentTypes \ {"multipart/form-data; boundary=x"},
     bodyReadable : {TRUE},
     messagesField : {[kind |-> "absent", json |-> NoJson]},
     files : {<<>>}]
    \cup
    [contentType : {"multipart/form-data; boundary=x"},
     bodyReadable : {FALSE},
     messagesField : {[kind |-> "absent", json |-> NoJson]},
     files : {<<>>}]
    \cup
    [contentType : {"multipart/form-data; boundary=x"},
     bodyReadable : {TRUE},
     messagesField : MessagesFields,
     files : FileSeqs]

\* the text of an upstream error body of n characters
ErrBody(n) == [i \in 1..n |-> ToString(i % 10)]

NoCompletion == [t |-> "none", hasChoices |-> FALSE, choices |-> <<>>]
Choice(hasMessage, contentKind, content) ==
    [hasMessage |-> hasMessage, contentKind |-> contentKind, content |-> content]
Completions ==
    {[t |-> "notJson", hasChoices |-> FALSE, choices |-> <<>>],
     [t |-> "null", hasChoices |-> FALSE, choices |-> <<>>],
     [t |-> "object", hasChoices |-> FALSE, choices |-> <<>>],
     [t |-> "object", hasChoices |-> TRUE, choices |-> <<>>]}
    \cup
    {[t |-> "object", hasChoices |-> TRUE, choices |-> <<c>>] :
        c \in {Choice(FALSE, "missing", <<>>),
               Choice(TRUE, "missing", <<>>),
               Choice(TRUE, "null", <<>>),
               Choice(TRUE, "number", <<>>),
               Choice(TRUE, "string", <<>>),
               Choice(TRUE, "string", <<" ", "\n">>),
               Choice(TRUE, "string", <<" ", "h", "i", " ", "!", "\n">>)}}
    \cup
    {[t |-> "object", hasChoices |-> TRUE,
      choices |-> <<Choice(TRUE, "string", <<"x">>), Choice(TRUE, "string", <<"y">>)>>]}

NoResponse ==
    [kind |-> "none", ok |-> FALSE, readable |-> FALSE, text |-> <<>>,
     completion |-> NoCompletion]
UpstreamOutcomes ==
    {[kind |-> "networkError", ok |-> FALSE, readable |-> FALSE, text |-> <<>>,
      completion |-> NoCompletion]}
    \cup
    {[kind |-> "http", ok |-> FALSE, readable |-> FALSE, text |-> <<>>,
      completion |-> NoCompletion]}
    \cup
    {[kind |-> "http", ok |-> FALSE, readable |-> TRUE, text |-> ErrBody(n),
      completion |-> NoCompletion] : n \in {0, 3, ExcerptLen, ExcerptLen + 1}}
    \cup
    {[kind |-> "http", ok |-> TRUE, readable |-> TRUE, text |-> <<>>,
      completion |-> c] : c \in Completions}

\* completion?.choices?.[0]?.message?.content?.trim():
\*   "undefined" when the chain short-circuits, "throws" when content has no trim
ExtractContent(completion) ==
    IF completion.t = "null" \/ ~completion.hasChoices \/ completion.choices = <<>>
    THEN [t |-> "undefined", text |-> <<>>]
    ELSE LET c == completion.choices[1]
         IN  IF ~c.hasMessage \/ c.contentKind \in {"missing", "null"}
             THEN [t |-> "undefined", text |-> <<>>]
             ELSE IF c.contentKind = "string"
             THEN [t |-> "string", text |-> Trim(c.content)]
             ELSE [t |-> "throws", text |-> <<>>]

\* ... ?? fallbackAssistant(latestUserMessage, attachmentSummary)
replyText(completion, latestUser, summary) ==
    LET got == ExtractContent(completion)
    IN  IF got.t = "undefined" THEN fallbackAssistant(latestUser, summary)
        ELSE got.text

\* ---- responses ----

NoResult == [status |-> 0, reply |-> <<>>, path |-> "none"]

\* NextResponse.json({reply}, {status})
Respond(status, reply, path) ==
    /\ result' = [status |-> status, reply |-> reply, path |-> path]
    /\ rpc' = "done"

\* a plausible slip: the upstream failure is passed on as a gateway error
PropagatedStatus(response) == IF response.ok THEN 200 ELSE 502

\* { status: 200 } of the !response.ok branch
UpstreamErrorStatus(response) == 200

UpstreamErrorReply(latestUser, summary, responder) ==
    fallbackAssistant(latestUser,
        summary \o <<"\n(Reason: ">> \o Slice(responder, ExcerptLen) \o <<")">>)

\* the top-level catch of POST
CatchAll(message) ==
    Respond(200,
            <<"I had trouble completing that request (", message,
              "). Let's try again in a moment.">>,
            "exception")

RelayInit ==
    /\ request \in Requests
    /\ apiKey \in BOOLEAN
    /\ rpc = "start"
    /\ relayMessages = NoJson
    /\ attachments = <<>>
    /\ latestUserMessage = <<>>
    /\ attachmentSummary = <<>>
    /\ upstreamCalls = <<>>
    /\ upstreamResponse = NoResponse
    /\ result = NoResult

\* the content-type check
CheckContentType ==
    /\ rpc = "start"
    /\ IF ~IsMultipart(request.contentType)
       THEN Respond(400, <<"Invalid payload format.">>, "rejected")
       ELSE rpc' = "formData" /\ UNCHANGED result
    /\ UNCHANGED <<request, apiKey, relayMessages, attachments, latestUserMessage,
                   attachmentSummary, upstreamCalls, upstreamResponse>>
    /\ UNCHANGED cvars

\* await request.formData(), the `messages` field and JSON.parse
ReadFormData ==
    /\ rpc = "formData"
    /\ IF ~request.bodyReadable
       THEN CatchAll("Failed to parse body as FormData.") /\ UNCHANGED relayMessages
       ELSE IF request.messagesField.kind # "text"
       THEN /\ Respond(400, <<"Missing conversation context.">>, "rejected")
            /\ UNCHANGED relayMessages
       ELSE IF request.messagesField.json.t = "invalid"
       THEN /\ Respond(400, <<"The conversation payload could not be parsed.">>, "rejected")
            /\ UNCHANGED relayMessages
       ELSE /\ relayMessages' = request.messagesField.json
            /\ rpc' = "summary"
            /\ UNCHANGED result
    /\ UNCHANGED <<request, apiKey, attachments, latestUserMessage,
                   attachmentSummary, upstreamCalls, upstreamResponse>>
    /\ UNCHANGED cvars

\* attachment extraction, latestUserMessage, the summary, the credential check
BuildSummary ==
    /\ rpc = "summary"
    /\ attachments' = ExtractAttachments(request.files)
    /\ IF relayMessages.t \in {"null", "object", "number"}
       THEN \* [...messages] throws: not iterable
            /\ CatchAll("messages is not iterable")
            /\ UNCHANGED <<latestUserMessage, attachmentSummary>>
       ELSE /\ latestUserMessage' = LatestUserContent(relayMessages.items)
            /\ attachmentSummary' = buildAttachmentSummary(attachments')
            /\ IF ~apiKey
               THEN Respond(200,
                            fallbackAssistant(latestUserMessage', attachmentSummary'),
                            "noCredential")
               ELSE rpc' = "enrich" /\ UNCHANGED result
    /\ UNCHANGED <<request, apiKey, relayMessages, upstreamCalls, upstreamResponse>>
    /\ UNCHANGED cvars

\* enrichment and the upstream fetch
CallUpstream ==
    /\ rpc = "enrich"
    /\ IF relayMessages.t = "string"
       THEN \* a string has no map
            CatchAll("messages.map is not a function") /\ UNCHANGED upstreamCalls
       ELSE /\ upstreamCalls' =
                Append(upstreamCalls,
                       UpstreamBody(enrichedMessages(relayMessages.items, attachments,
                                                     attachmentSummary)))
            /\ rpc' = "awaitUpstream"
            /\ UNCHANGED result
    /\ UNCHANGED <<request, apiKey, relayMessages, attachments, latestUserMessage,
                   attachmentSummary, upstreamResponse>>
    /\ UNCHANGED cvars

\* the upstream call settles: fetch rejects or resolves with a response
UpstreamSettles(outcome) ==
    /\ rpc = "awaitUpstream"
    /\ upstreamResponse' = outcome
    /\ IF outcome.kind = "networkError"
       THEN CatchAll("fetch failed")
       ELSE rpc' = "response" /\ UNCHANGED result
    /\ UNCHANGED <<request, apiKey, relayMessages, attachments, latestUserMessage,
                   attachmentSummary, upstreamCalls>>
    /\ UNCHANGED cvars

\* the !response.ok branch and the completion branch
HandleResponse ==
    /\ rpc = "response"
    /\ IF ~upstreamResponse.ok
       THEN IF ~upstreamResponse.readable
            THEN CatchAll("terminated")
            ELSE Respond(UpstreamErrorStatus(upstreamResponse),
                         UpstreamErrorReply(latestUserMessage, attachmentSummary,
                                            upstreamResponse.text),
                         "upstreamError")
       ELSE IF upstreamResponse.completion.t = "notJson"
            THEN CatchAll("Unexpected token < in JSON at position 0")
            ELSE IF ExtractContent(upstreamResponse.completion).t = "throws"
            THEN CatchAll("completion?.choices?.[0]?.message?.content?.trim is not a function")
            ELSE Respond(200,
                         replyText(upstreamResponse.completion, latestUserMessage,
                                   attachmentSummary),
                         "upstreamOk")
    /\ UNCHANGED <<request, apiKey, relayMessages, attachments, latestUserMessage,
                   attachmentSummary, upstreamCalls, upstreamResponse>>
    /\ UNCHANGED cvars

\* ===================================================================
\* Conversation Composer (page.tsx)
\* ===================================================================

MAX_ATTACHMENTS == 4

\* a run is bounded in the drafts it stages and the sends it starts: either
\* enough drafts to overrun the cap and few sends, or several sends of few drafts
MaxIds == 5         \* drafts ever staged, in a run that fills the cap
FewSends == 1       \* sends ever started, in a run that fills the cap
MaxSends == 2       \* sends ever started, in a run of several sends
FewIds == 2         \* drafts ever staged, in a run of several sends

\* most files one selection of the file picker holds
MaxSelect == MAX_ATTACHMENTS + 1

\* what the user can have typed: nothing, or text with blanks around it
Inputs == {<<>>, <<" ", "h", "i", " ">>}

Greeting ==
    [role |-> "assistant",
     content |-> <<"Hi, I'm Chatify-your friendly AI co-pilot for everyday challenges. ...">>,
     attachments |-> <<>>]

\* a File of the picker is a handle; its type is empty for every second file
FileType(file) == IF file % 2 = 0 THEN "" ELSE "image/png"

\* MAX_ATTACHMENTS - prev.length
availableSlots(prev) == MAX_ATTACHMENTS - Len(prev)

\* a plausible slip: every selected file is staged, the free slots are not counted
StageFilesUncapped(prev, files, fresh) ==
    prev \o [i \in 1..Len(files) |->
                [id |-> fresh + i - 1, file |-> files[i], preview |-> fresh + i - 1]]

\* the updater of handleFileChange; ids and object URLs are taken from `fresh` on
StageFiles(prev, files, fresh) ==
    IF availableSlots(prev) <= 0 THEN prev
    ELSE LET nextFiles == Slice(files, availableSlots(prev))
         IN  prev \o [i \in 1..Len(nextFiles) |->
                        [id |-> fresh + i - 1,
                         file |-> nextFiles[i],
                         preview |-> fresh + i - 1]]

\* prev.filter((item) => item.id !== id)
WithoutId(prev, id) == SelectSeq(prev, LAMBDA item : item.id # id)

\* the previews of a list of drafts
PreviewsOf(drafts) == {drafts[i].preview : i \in 1..Len(drafts)}

\* the PersistedAttachment a fulfilled conversion yields
PersistedOf(item) ==
    [id |-> item.id,
     name |-> item.file,
     type |-> IF FileType(item.file) = "" THEN "application/octet-stream"
              ELSE FileType(item.file),
     url |-> item.file]

\* a plausible slip: the rejected results are not filtered out
UnfilteredValues(snapshot, results) ==
    [i \in 1..Len(snapshot) |-> PersistedOf(snapshot[i])]

RECURSIVE FulfilledValues(_, _)
\* conversionResults.filter(fulfilled).map(value)
FulfilledValues(snapshot, results) ==
    IF snapshot = <<>> THEN <<>>
    ELSE IF Head(results) = "fulfilled"
    THEN <<PersistedOf(Head(snapshot))>> \o FulfilledValues(Tail(snapshot), Tail(results))
    ELSE FulfilledValues(Tail(snapshot), Tail(results))

serializeMessagesForRequest(conversation) ==
    [i \in 1..Len(conversation) |->
        [role |-> conversation[i].role,
         content |-> conversation[i].content,
         attachments |->
            [j \in 1..Len(conversation[i].attachments) |->
                [name |-> conversation[i].attachments[j].name,
                 type |-> conversation[i].attachments[j].type]]]]

\* the file parts appended to the form data
FormFiles(snapshot) == [i \in 1..Len(snapshot) |-> snapshot[i].file]

\* a list without its k-th element
WithoutIndex(xs, k) ==
    [i \in 1..(Len(xs) - 1) |-> IF i < k THEN xs[i] ELSE xs[i + 1]]

\* the first position of x in xs
IndexOf(xs, x) == CHOOSE k \in 1..Len(xs) : xs[k] = x /\ \A j \in 1..(k - 1) : xs[j] # x

NoMessage == [role |-> "none", content |-> <<>>, attachments |-> <<>>]
NoFormData == [messages |-> <<>>, files |-> <<>>]

\* how the fetch to /api/chat and the reading of its body can end
TransportOutcomes == {"networkError", "notOk", "reply", "noReply", "malformed"}

\* the content of the assistant message of the try and the catch branch
AssistantContent(outcome) ==
    CASE outcome = "reply" -> <<"R">>
      [] outcome = "noReply" ->
            <<"I'm here, but I couldn't understand the request just yet.">>
      [] outcome = "networkError" ->
            <<"I ran into an issue: ", "Failed to fetch", ". Please try again.">>
      [] outcome = "notOk" ->
            <<"I ran into an issue: ", "Failed to reach Chatify", ". Please try again.">>
      [] outcome = "malformed" ->
            <<"I ran into an issue: ", "Unexpected end of JSON input", ". Please try again.">>

\* a plausible slip: setMessages([...messages, assistantMessage]) with the
\* `messages` the invocation captured when it started
AppendToCaptured(prev, assistantMessage) ==
    Append(sends[1].messages, assistantMessage)

\* setMessages((prev) => [...prev, assistantMessage])
AppendAssistant(prev, assistantMessage) == Append(prev, assistantMessage)

\* a plausible slip: the submit handler does not look at isThinking
MaySendAlways(thinking) == TRUE

\* the guard of preventDefault
MaySend(thinking) == ~thinking

\* the early return of handleSend
NothingToSend(text, pending) == Trim(text) = <<>> /\ Len(pending) = 0

ComposerInit ==
    /\ messages = <<Greeting>>
    /\ input = <<>>
    /\ pendingAttachments = <<>>
    /\ isThinking = FALSE
    /\ pendingRef = <<>>
    /\ sends = <<>>
    /\ previews = {}
    /\ nextId = 1
    /\ mounted = TRUE
    /\ started = 0
    /\ requests = <<>>
    /\ sentCount = 0
    /\ autoSpeak = TRUE
    /\ speechSupported \in {[output |-> b] : b \in BOOLEAN}
    /\ speakQueue = <<>>
    /\ synth = <<>>

\* the textarea's onChange
setInput(value) ==
    /\ mounted
    /\ input' = value
    /\ UNCHANGED <<messages, pendingAttachments, isThinking, pendingRef, sends,
                   previews, nextId, mounted, started, requests, sentCount>>
    /\ UNCHANGED <<rvars, budget, voice>>

\* a selection of n files in the file picker
handleFileChange(n) ==
    /\ mounted
    /\ LET files == [i \in 1..n |-> nextId + i - 1]
           next == IF n = 0 THEN pendingAttachments
                   ELSE StageFiles(pendingAttachments, files, nextId)
           added == Len(next) - Len(pendingAttachments)
       IN  /\ nextId + added - 1 <= budget.ids
           /\ pendingAttachments' = next
           /\ pendingRef' = next
           /\ previews' = previews \cup
                {next[i].preview : i \in (Len(pendingAttachments) + 1)..Len(next)}
           /\ nextId' = nextId + added
    /\ UNCHANGED <<messages, input, isThinking, sends, mounted, started, requests, sentCount>>
    /\ UNCHANGED <<rvars, budget, voice>>

\* the drafts on screen, each rendered with its remove button
StagedIds == {pendingAttachments[i].id : i \in 1..Len(pendingAttachments)}

\* the onClick of a draft's remove button
removeAttachment(id) ==
    /\ mounted
    /\ LET next == WithoutId(pendingAttachments, id)
           removed == SelectSeq(pendingAttachments, LAMBDA item : item.id = id)
       IN  /\ pendingAttachments' = next
           /\ pendingRef' = next
           /\ previews' = IF removed # <<>> THEN previews \ {removed[1].preview}
                          ELSE previews
    /\ UNCHANGED <<messages, input, isThinking, sends, nextId, mounted, started,
                   requests, sentCount>>
    /\ UNCHANGED <<rvars, budget, voice>>

\* the locals of a handleSend invocation that passed the guard
NewSend ==
    [pc |-> "converting",
     input |-> input,
     messages |-> messages,
     attachmentsSnapshot |-> pendingAttachments,
     autoSpeak |-> autoSpeak,
     speechOutput |-> speechSupported.output,
     conversionResults |-> <<>>,
     userMessage |-> NoMessage,
     formData |-> NoFormData]

\* the user message built from the trimmed input and the converted snapshots
UserMessageOf(send, results) ==
    [role |-> "user",
     content |-> Trim(send.input),
     attachments |-> FulfilledValues(send.attachmentsSnapshot, results)]

\* a plausible slip: the transcript captured at the submit, without the new turn
CapturedConversation(captured, userMessage) == captured

\* [...messages, userMessage]
nextConversation(captured, userMessage) == Append(captured, userMessage)

\* the form data: the serialized nextConversation and one part per snapshot
FormDataOf(send, results) ==
    [messages |-> serializeMessagesForRequest(
                      nextConversation(send.messages, UserMessageOf(send, results))),
     files |-> FormFiles(send.attachmentsSnapshot)]

\* the locals of the invocation once the fetch is issued
Fetching(send, results) ==
    [send EXCEPT !.pc = "fetching",
                 !.conversionResults = results,
                 !.userMessage = UserMessageOf(send, results),
                 !.formData = FormDataOf(send, results)]

\* handleSend from the settled conversions to the fetch: the user message, the
\* clearing of input and drafts with their previews, the form data, the request
RunToFetch(send, results) ==
    /\ previews' = previews \ PreviewsOf(send.attachmentsSnapshot)
    /\ IF mounted
       THEN /\ input' = <<>>
            /\ pendingAttachments' = <<>>
            /\ pendingRef' = <<>>
            /\ messages' = nextConversation(send.messages, UserMessageOf(send, results))
       ELSE UNCHANGED <<input, pendingAttachments, pendingRef, messages>>
    /\ requests' = Append(requests, FormDataOf(send, results))
    /\ sentCount' = sentCount + 1

\* handleSend up to its first await that waits: the guard, setIsThinking(true),
\* the snapshot and the start of the conversions. With no draft staged
\* Promise.allSettled([]) is already settled, and the invocation runs on to the
\* fetch before any other event is handled.
handleSend ==
    IF NothingToSend(input, pendingAttachments)
    THEN UNCHANGED <<messages, input, pendingAttachments, isThinking, pendingRef, sends,
                     previews, started, requests, sentCount>>
    ELSE /\ started < budget.sends
         /\ isThinking' = TRUE
         /\ started' = started + 1
         /\ IF pendingAttachments = <<>>
            THEN /\ RunToFetch(NewSend, <<>>)
                 /\ sends' = Append(sends, Fetching(NewSend, <<>>))
            ELSE /\ sends' = Append(sends, NewSend)
                 /\ UNCHANGED <<messages, input, pendingAttachments, pendingRef,
                                previews, requests, sentCount>>

\* the form's onSubmit
preventDefault ==
    /\ mounted
    /\ IF MaySend(isThinking) THEN handleSend
       ELSE UNCHANGED <<messages, input, pendingAttachments, isThinking, pendingRef,
                        sends, previews, started, requests, sentCount>>
    /\ UNCHANGED <<nextId, mounted>>
    /\ UNCHANGED <<rvars, budget, voice>>

\* Promise.allSettled of send s resolves with `results` (one "fulfilled" or
\* "rejected" per snapshot, as each fileToDataUrl ended) and handleSend runs on
\* to the fetch
SendRequest(s, results) ==
    /\ s \in 1..Len(sends)
    /\ sends[s].pc = "converting"
    /\ results \in [1..Len(sends[s].attachmentsSnapshot) -> {"fulfilled", "rejected"}]
    /\ RunToFetch(sends[s], results)
    /\ sends' = [sends EXCEPT ![s] = Fetching(sends[s], results)]
    /\ UNCHANGED <<isThinking, nextId, mounted, started>>
    /\ UNCHANGED <<rvars, budget, voice>>

\* synth.cancel(): every utterance held is dropped
Cancel(utterances) == <<>>

\* synth.speak(utterance): the utterance joins the ones held
Speak(utterances, text) == Append(utterances, text)

\* !speakQueue: null or the empty text
QueueEmpty(queue) == queue = <<>> \/ queue[1] = <<>>

\* the effect on [autoSpeak, speakQueue, speechSupported.output], run on the
\* values of the render that was committed; its setSpeakQueue(null) makes it
\* run once more, to no effect
SpeakEffect(auto, supported, queue, utterances) ==
    IF ~auto \/ ~supported.output THEN [speakQueue |-> queue, synth |-> utterances]
    ELSE IF QueueEmpty(queue) THEN [speakQueue |-> queue, synth |-> utterances]
    ELSE [speakQueue |-> <<>>, synth |-> Speak(Cancel(utterances), queue[1])]

\* if (speechSupported.output && autoSpeak) setSpeakQueue(content), on the
\* values the handleSend invocation captured when it was called
QueueFor(send, queue, content) ==
    IF send.speechOutput /\ send.autoSpeak THEN <<content>> ELSE queue

\* the fetch of send s settles: the try, catch and finally of handleSend
TransportSettles(s, outcome) ==
    /\ s \in 1..Len(sends)
    /\ sends[s].pc = "fetching"
    /\ LET assistantMessage == [role |-> "assistant",
                                content |-> AssistantContent(outcome),
                                attachments |-> <<>>]
       IN  IF mounted
           THEN LET queued == QueueFor(sends[s], speakQueue, assistantMessage.content)
                    after == SpeakEffect(autoSpeak, speechSupported, queued, synth)
                IN  /\ messages' = AppendAssistant(messages, assistantMessage)
                    /\ isThinking' = FALSE
                    /\ speakQueue' = after.speakQueue
                    /\ synth' = after.synth
           ELSE UNCHANGED <<messages, isThinking, speakQueue, synth>>
    /\ sends' = WithoutIndex(sends, s)
    /\ requests' = WithoutIndex(requests, IndexOf(requests, sends[s].formData))
    /\ UNCHANGED <<input, pendingAttachments, pendingRef, previews, nextId, mounted,
                   started, sentCount, autoSpeak, speechSupported>>
    /\ UNCHANGED <<rvars, budget>>

\* the auto-speak button: setAutoSpeak((prev) => !prev), then the speak effect
toggleAutoSpeak ==
    /\ mounted
    /\ autoSpeak' = ~autoSpeak
    /\ LET after == SpeakEffect(~autoSpeak, speechSupported, speakQueue, synth)
       IN  /\ speakQueue' = after.speakQueue
           /\ synth' = after.synth
    /\ UNCHANGED <<messages, input, pendingAttachments, isThinking, pendingRef, sends,
                   previews, nextId, mounted, started, requests, sentCount,
                   speechSupported>>
    /\ UNCHANGED <<rvars, budget>>

\* the synthesis engine finishes the utterance it is speaking
UtteranceEnds ==
    /\ synth # <<>>
    /\ synth' = Tail(synth)
    /\ UNCHANGED <<messages, input, pendingAttachments, isThinking, pendingRef, sends,
                   previews, nextId, mounted, started, requests, sentCount,
                   autoSpeak, speechSupported, speakQueue>>
    /\ UNCHANGED <<rvars, budget>>

\* the component is unmounted: the cleanup of the mount effect revokes the
\* previews of pendingRef.current, and the component's state is discarded
\* (handleSend invocations in flight keep the values they captured)
Teardown ==
    /\ mounted
    /\ mounted' = FALSE
    /\ previews' = previews \ PreviewsOf(pendingRef)
    /\ messages' = <<>>
    /\ input' = <<>>
    /\ pendingAttachments' = <<>>
    /\ pendingRef' = <<>>
    /\ isThinking' = FALSE
    /\ autoSpeak' = TRUE
    /\ speakQueue' = <<>>
    /\ UNCHANGED <<sends, nextId, started, requests, sentCount, speechSupported, synth>>
    /\ UNCHANGED <<rvars, budget>>

ComposerIdle ==
    /\ messages = <<>>
    /\ input = <<>>
    /\ pendingAttachments = <<>>
    /\ isThinking = FALSE
    /\ pendingRef = <<>>
    /\ sends = <<>>
    /\ previews = {}
    /\ nextId = 1
    /\ mounted = FALSE
    /\ started = 0
    /\ requests = <<>>
    /\ sentCount = 0
    /\ budget = [ids |-> 0, sends |-> 0]
    /\ autoSpeak = TRUE
    /\ speechSupported = [output |-> FALSE]
    /\ speakQueue = <<>>
    /\ synth = <<>>

RelayNext ==
    \/ CheckContentType
    \/ ReadFormData
    \/ BuildSummary
    \/ CallUpstream
    \/ \E outcome \in UpstreamOutcomes : UpstreamSettles(outcome)
    \/ HandleResponse

\* one request against the handler; no page is open
RelayStart == RelayInit /\ ComposerIdle

RelaySpec == RelayStart /\ [][RelayNext]_vars

RelayIdle ==
    /\ request = [contentType |-> "null", bodyReadable |-> TRUE,
                  messagesField |-> [kind |-> "absent", json |-> NoJson],
                  files |-> <<>>]
    /\ apiKey = FALSE
    /\ rpc = "idle"
    /\ relayMessages = NoJson
    /\ attachments = <<>>
    /\ latestUserMessage = <<>>
    /\ attachmentSummary = <<>>
    /\ upstreamCalls = <<>>
    /\ upstreamResponse = NoResponse
    /\ result = NoResult

ComposerNext ==
    \/ \E value \in Inputs : setInput(value)
    \/ \E n \in 0..MaxSelect : handleFileChange(n)
    \/ \E id \in StagedIds : removeAttachment(id)
    \/ preventDefault
    \/ \E s \in DOMAIN sends :
         \E results \in [1..Len(sends[s].attachmentsSnapshot) -> {"fulfilled", "rejected"}] :
            SendRequest(s, results)
    \/ \E s \in DOMAIN sends, outcome \in TransportOutcomes : TransportSettles(s, outcome)
    \/ Teardown

\* runs of several sends, each of few drafts, in a browser without speech
\* synthesis and with the auto-speak button left alone
ComposerStart ==
    /\ ComposerInit
    /\ ~speechSupported.output
    /\ budget = [ids |-> FewIds, sends |-> MaxSends]
    /\ RelayIdle

ComposerSpec == ComposerStart /\ [][ComposerNext]_vars

\* runs that stage enough drafts to overrun the cap
StagingStart ==
    /\ ComposerInit
    /\ ~speechSupported.output
    /\ budget = [ids |-> MaxIds, sends |-> FewSends]
    /\ RelayIdle

StagingSpec == StagingStart /\ [][ComposerNext]_vars

VoiceNext ==
    \/ ComposerNext
    \/ toggleAutoSpeak
    \/ UtteranceEnds

\* runs in any browser, with the auto-speak button in use
VoiceStart ==
    /\ ComposerInit
    /\ budget = [ids |-> FewIds, sends |-> MaxSends]
    /\ RelayIdle

VoiceSpec == VoiceStart /\ [][VoiceNext]_vars

\* ===================================================================
\* Properties of the Relay Endpoint
\* ===================================================================

\* the request carries a readable multipart body whose `messages` field is
\* text denoting an ordered sequence of {role, content} messages
StructurallyValid(req) ==
    /\ IsMultipart(req.contentType)
    /\ req.bodyReadable
    /\ req.messagesField.kind = "text"
    /\ req.messagesField.json \in JsonArrays

\* wrong content type, `messages` missing or not text, or text that does not
\* denote a sequence of messages
StructurallyInvalid(req) ==
    \/ ~IsMultipart(req.contentType)
    \/ /\ req.bodyReadable
       /\ \/ req.messagesField.kind # "text"
          \/ req.messagesField.json \notin JsonArrays

\* the content of the user-role message with the greatest index, "" if none
LastUserText(ms) ==
    LET users == {i \in 1..Len(ms) : ms[i].role = "user"}
    IN  IF users = {} THEN <<>>
        ELSE ms[CHOOSE i \in users : \A j \in users : j <= i].content

\* C1: a request that fails structural validation (content type not
\* multipart/form-data; `messages` missing or not text; `messages` not
\* parseable as a sequence of messages) is answered 400 with a non-empty
\* reply, and no upstream call is made for it.
C1_StructuralRejection ==
    StructurallyInvalid(request) =>
        /\ upstreamCalls = <<>>
        /\ rpc = "done" => result.status = 400 /\ result.reply # <<>>

\* C2: a request not rejected by structural validation ends with status 200
\* and a reply, on every path (no credential, upstream non-success, upstream
\* success, exception); the handler never stops before responding; on the
\* upstream non-success path the reply is the fallback reply annotated with at
\* most the first 200 characters of the upstream error body.
C2_AlwaysReplies ==
    /\ rpc # "done" => ENABLED RelayNext
    /\ rpc = "done" /\ result.path # "rejected" =>
        /\ result.status = 200
        /\ result.path \in {"noCredential", "upstreamError", "upstreamOk", "exception"}
        /\ result.reply \in Seq(STRING)
    /\ rpc = "done" /\ upstreamResponse.kind = "http" /\ ~upstreamResponse.ok =>
        result.status = 200
    /\ rpc = "done" /\ result.path = "upstreamError" =>
        LET body == upstreamResponse.text
            excerpt == [i \in 1..Min(Len(body), 200) |-> body[i]]
        IN  /\ Len(excerpt) <= 200
            /\ result.reply =
                 fallbackAssistant(LastUserText(relayMessages.items),
                     buildAttachmentSummary(ExtractAttachments(request.files))
                     \o <<"\n(Reason: ">> \o excerpt \o <<")">>)

\* C2 witness: an upstream error body longer than the excerpt was absorbed
C2_Witness ==
    /\ rpc = "done"
    /\ result.path = "upstreamError"
    /\ Len(upstreamResponse.text) > 200
    /\ result.status = 200

\* C3: with no credential configured, a structurally valid request causes no
\* upstream call, and its reply is the fallback text of the latest user-role
\* message and the attachment summary: any transcript with the same latest user
\* text and the same file parts gets the same reply; with no file parts the
\* summary is exactly "No attachments were included.".
C3_NoCredentialFallback ==
    ~apiKey /\ StructurallyValid(request) =>
        /\ upstreamCalls = <<>>
        /\ upstreamResponse = NoResponse
        /\ rpc = "done" =>
            /\ result.path = "noCredential"
            /\ result.reply =
                 fallbackAssistant(LastUserText(request.messagesField.json.items),
                                   attachmentSummary)
            /\ \A other \in Transcripts :
                 LastUserText(other) = LastUserText(request.messagesField.json.items) =>
                    fallbackAssistant(LatestUserContent(other),
                        buildAttachmentSummary(ExtractAttachments(request.files)))
                    = result.reply
            /\ request.files = <<>> =>
                 attachmentSummary = <<"No attachments were included.">>

\* C3 witness: a keyless reply to a transcript of two user turns and two files
C3_Witness ==
    /\ ~apiKey
    /\ StructurallyValid(request)
    /\ rpc = "done"
    /\ result.path = "noCredential"
    /\ Len(request.files) = 2
    /\ LET ms == request.messagesField.json.items
       IN  /\ Len(ms) = 3
           /\ ms[1].role = "user" /\ ms[2].role = "user" /\ ms[3].role = "assistant"
           /\ ms[1].content # ms[2].content

\* C4: the attachment summary is appended to the content of exactly one
\* message handed to the upstream call, the latest user-role message wherever
\* it sits in the transcript, if and only if there is at least one attachment;
\* every other message keeps its role, content and position.
C4_EnrichLatestUser ==
    upstreamCalls # <<>> /\ StructurallyValid(request) =>
        LET ms == request.messagesField.json.items
            sent == Tail(upstreamCalls[1])
            users == {i \in 1..Len(ms) : ms[i].role = "user"}
            summary == buildAttachmentSummary(ExtractAttachments(request.files))
        IN  /\ Len(sent) = Len(ms)
            /\ \A i \in 1..Len(ms) :
                /\ sent[i].role = ms[i].role
                /\ sent[i].content =
                     IF /\ request.files # <<>>
                        /\ i \in users
                        /\ \A j \in users : j <= i
                     THEN ms[i].content \o <<"\n\n">> \o summary
                     ELSE ms[i].content

\* C5: on an upstream success the reply is the trimmed text of
\* choices[0].message.content when that is non-blank text, and the fallback
\* reply when choices is missing or empty, message or content is missing, or
\* the content is empty or blank.
C5_ReplyExtraction ==
    /\ rpc = "done"
    /\ upstreamResponse.kind = "http" /\ upstreamResponse.ok
    /\ upstreamResponse.completion.t \in {"null", "object"}
    /\ \A i \in 1..Len(upstreamResponse.completion.choices) :
          upstreamResponse.completion.choices[i].contentKind # "number"
    =>
        LET c == upstreamResponse.completion
            hasText ==
                /\ c.t = "object" /\ c.hasChoices /\ c.choices # <<>>
                /\ c.choices[1].hasMessage
                /\ c.choices[1].contentKind = "string"
                /\ \E i \in 1..Len(c.choices[1].content) :
                      c.choices[1].content[i] \notin Whitespace
        IN  result.reply =
                IF hasText THEN Trim(c.choices[1].content)
                ELSE fallbackAssistant(latestUserMessage, attachmentSummary)


\* ===================================================================
\* Properties of the Conversation Composer
\* ===================================================================

IsPrefix(xs, ys) == Len(xs) <= Len(ys) /\ SubSeq(ys, 1, Len(xs)) = xs

\* the drafts of a snapshot whose conversion was fulfilled
ConvertedFiles(send) ==
    {send.attachmentsSnapshot[i].file :
        i \in {j \in 1..Len(send.attachmentsSnapshot) : send.conversionResults[j] = "fulfilled"}}

\* C6: after any sequence of file selections, removals and sends at most 4
\* drafts are staged; a selection made at the cap changes nothing; a selection
\* of n files stages the first min(n, free slots) of them and ignores the rest;
\* every request carries at most 4 file parts.
C6_AttachmentCap ==
    /\ [](/\ Len(pendingAttachments) <= 4
          /\ \A r \in 1..Len(requests) : Len(requests[r].files) <= 4)
    /\ [][\A n \in 0..MaxSelect : handleFileChange(n) =>
            /\ Len(pendingAttachments) >= 4 => UNCHANGED cvars
            /\ IsPrefix(pendingAttachments, pendingAttachments')
            /\ Len(pendingAttachments') =
                 Min(4, Len(pendingAttachments) + n)
            /\ \A i \in (Len(pendingAttachments) + 1)..Len(pendingAttachments') :
                 pendingAttachments'[i].file = nextId + (i - Len(pendingAttachments)) - 1
         ]_vars

\* C6 witness: the cap is reached with drafts to spare, and a request went out with 4 parts
C6_Witness ==
    /\ requests # <<>>
    /\ Len(requests[1].files) = 4
    /\ Len(sends) = 1
    /\ nextId > 4

\* C7: at most one send cycle is outstanding: while a send that passed the
\* empty-input guard has not appended its assistant Message, isThinking is
\* true, and a submit changes nothing (no second user Message, no second
\* request), however submits interleave with the conversions and the transport.
C7_SingleSend ==
    /\ [](/\ Len(sends) <= 1
          /\ Len(requests) <= 1
          /\ mounted /\ sends # <<>> => isThinking)
    /\ [][preventDefault /\ sends # <<>> => UNCHANGED vars]_vars

\* C7 witness: a send is in flight while there is text a submit would send
C7_Witness ==
    /\ mounted
    /\ Len(sends) = 1
    /\ sends[1].pc = "fetching"
    /\ isThinking
    /\ Trim(input) # <<>>
    /\ started < budget.sends

AssistantTexts == {AssistantContent(outcome) : outcome \in TransportOutcomes}

\* C8: the transcript is append-only and loses no user turn: each send that
\* passes the guard appends exactly one user Message (once the conversions have
\* settled) and then exactly one assistant Message (once the transport has
\* settled, whatever its outcome: the reply, the placeholder or an error
\* description), after which isThinking is false; no appended Message is ever
\* removed, reordered or changed.
C8_AppendOnly ==
    /\ [](mounted =>
            /\ messages[1] = Greeting
            /\ \A i \in 2..Len(messages) :
                 /\ messages[i].role = IF i % 2 = 0 THEN "user" ELSE "assistant"
                 /\ messages[i].role = "assistant" => messages[i].content \in AssistantTexts
            /\ sends = <<>> => ~isThinking /\ Len(messages) = 1 + 2 * started
            /\ \A s \in 1..Len(sends) :
                 /\ sends[s].pc = "converting" => Len(messages) = 2 * started - 1
                 /\ sends[s].pc = "fetching" =>
                      /\ Len(messages) = 2 * started
                      /\ messages[Len(messages)] = sends[s].userMessage
                      /\ sends[s].userMessage.content = Trim(sends[s].input))
    /\ [][mounted' => IsPrefix(messages, messages')]_vars

\* C8 witness: two sends have completed, one with an error description, one with the reply
C8_Witness ==
    /\ mounted
    /\ sends = <<>>
    /\ Len(messages) = 5
    /\ messages[3].content = AssistantContent("malformed")
    /\ messages[5].content = AssistantContent("reply")
    /\ messages[4].attachments # <<>>
    /\ ~isThinking

\* C9 as stated: a draft whose conversion failed is absent from the appended
\* user Message, from the serialized transcript metadata and from the
\* transmitted request; the send proceeds with the other drafts.
C9_FailedAbsentEverywhere ==
    \A s \in 1..Len(sends) :
        sends[s].pc = "fetching" =>
            LET send == sends[s]
                meta == send.formData.messages[Len(send.formData.messages)].attachments
            IN  /\ {send.userMessage.attachments[i].name :
                        i \in 1..Len(send.userMessage.attachments)} = ConvertedFiles(send)
                /\ {meta[i].name : i \in 1..Len(meta)} = ConvertedFiles(send)
                /\ {send.formData.files[i] : i \in 1..Len(send.formData.files)}
                        = ConvertedFiles(send)

\* C9 as amended: a draft whose conversion failed is absent from the appended
\* user Message and from the serialized transcript metadata, which carry
\* exactly the converted drafts in snapshot order, but its file is still
\* transmitted: the request carries one file part per draft of the snapshot,
\* converted or not. A failed conversion never aborts the send: the request is
\* issued and the user Message appended whatever the conversions' outcomes.
C9_FailedDroppedFromMessage ==
    \A s \in 1..Len(sends) :
        LET send == sends[s]
        IN  /\ send.pc = "converting" =>
                \A results \in [1..Len(send.attachmentsSnapshot) -> {"fulfilled", "rejected"}] :
                    ENABLED SendRequest(s, results)
            /\ send.pc = "fetching" =>
                LET meta == send.formData.messages[Len(send.formData.messages)].attachments
                    kept == SelectSeq(send.attachmentsSnapshot,
                                LAMBDA item : item.file \in ConvertedFiles(send))
                IN  /\ Len(send.userMessage.attachments) = Len(kept)
                    /\ \A i \in 1..Len(kept) :
                         /\ send.userMessage.attachments[i].id = kept[i].id
                         /\ send.userMessage.attachments[i].name = kept[i].file
                         /\ meta[i].name = kept[i].file
                    /\ Len(meta) = Len(kept)
                    /\ send.formData.files =
                         [i \in 1..Len(send.attachmentsSnapshot) |->
                              send.attachmentsSnapshot[i].file]
                    /\ \E r \in 1..Len(requests) : requests[r] = send.formData
                    /\ mounted => messages[Len(messages)] = send.userMessage

\* C9 witness: a send went out whose first conversion failed and whose second succeeded
C9_Witness ==
    /\ Len(sends) = 1
    /\ sends[1].pc = "fetching"
    /\ sends[1].conversionResults = <<"rejected", "fulfilled">>
    /\ Len(sends[1].userMessage.attachments) = 1
    /\ Len(requests[1].files) = 2

\* C10: no preview stays allocated for a draft that is no longer staged: every
\* allocated preview belongs to a draft of the staged set of the mounted
\* component, under every interleaving of staging, removal, send and teardown.
C10_NoPreviewLeak ==
    \A p \in previews :
        /\ mounted
        /\ \E i \in 1..Len(pendingAttachments) : pendingAttachments[i].preview = p

\* ===================================================================
\* Voice playback
\* ===================================================================

\* the step appends an assistant Message to the transcript on screen
AppendsAssistant ==
    /\ mounted /\ mounted'
    /\ Len(messages') = Len(messages) + 1
    /\ messages'[Len(messages')].role = "assistant"

\* the step starts no utterance: the engine holds what it held, or has finished one
StartsNoUtterance == synth' = synth \/ (synth # <<>> /\ synth' = Tail(synth))

\* C11: voice playback follows the auto-speak setting in force when the
\* assistant Message is appended. A step that appends an assistant Message
\* while auto-speak is enabled and the synthesis capability is present cancels
\* what the engine holds and speaks the Message's text, so that the engine
\* holds that one utterance and nothing is left queued; a step that appends
\* one while auto-speak is disabled (or without the capability) starts no
\* utterance; and no other step (a toggle of auto-speak in particular, during
\* the send or afterwards) ever starts one.
C11_VoiceFollowsSetting ==
    [][/\ Len(synth') <= 1
       /\ AppendsAssistant /\ autoSpeak /\ speechSupported.output =>
            /\ synth' = <<messages'[Len(messages')].content>>
            /\ speakQueue' = <<>>
       /\ AppendsAssistant /\ ~(autoSpeak /\ speechSupported.output) => synth' = synth
       /\ ~AppendsAssistant => StartsNoUtterance
      ]_vars

\* ===================================================================
\* The transcripts the Composer transmits
\* ===================================================================

\* the greeting first, then user and assistant turns in strict alternation
Alternates(ms) ==
    \A i \in 1..Len(ms) : ms[i].role = IF i % 2 = 1 THEN "assistant" ELSE "user"

\* the positions of the user-role messages of a transcript
UserIndices(ms) == {i \in 1..Len(ms) : ms[i].role = "user"}

\* the positions the relay's enrichment step rewrites, given these attachments
EnrichedIndices(ms, atts) ==
    {i \in 1..Len(ms) :
        enrichedMessages(ms, atts, buildAttachmentSummary(atts))[i] # ms[i]}

\* C12: while the Composer is on screen its transcript starts with the
\* assistant greeting and strictly alternates assistant and user roles; every
\* transcript in a request it has transmitted is non-empty, starts with the
\* greeting, alternates, and ends with the user Message of the send that
\* issued it, so that, whatever files accompany it, the relay's enrichment
\* (last position and user role) rewrites exactly the latest user-role
\* message, the one whose content the relay's reverse search finds.
C12_TranscriptAlternates ==
    /\ mounted => messages[1] = Greeting /\ Alternates(messages)
    /\ \A r \in 1..Len(requests) :
         LET sent == requests[r].messages
         IN  /\ sent # <<>>
             /\ sent[1].content = Greeting.content
             /\ Alternates(sent)
             /\ sent[Len(sent)].role = "user"
             /\ \E s \in 1..Len(sends) :
                   /\ sends[s].pc = "fetching"
                   /\ sends[s].formData = requests[r]
                   /\ sent[Len(sent)].content = sends[s].userMessage.content
                   /\ sent = serializeMessagesForRequest(
                                Append(sends[s].messages, sends[s].userMessage))
             /\ LatestUserContent(sent) = sent[Len(sent)].content
             /\ \A part \in FileParts :
                   EnrichedIndices(sent, ExtractAttachments(<<part>>)) =
                       {i \in UserIndices(sent) : \A j \in UserIndices(sent) : j <= i}

\* C12 witness: the request of a second send is in flight; its transcript holds
\* the greeting, the first exchange and the new user turn
C12_Witness ==
    /\ mounted
    /\ Len(requests) = 1
    /\ Len(requests[1].messages) = 4
    /\ Len(messages) = 4
    /\ requests[1].files # <<>>
====
